---- MODULE Spec2Model ----
(***************************************************************************)
(* Simulation run orchestrator of web_app.py: the run registry, the worker *)
(* thread of each run (_run_simulation_subprocess), the line parser        *)
(* (_parse_stats_from_line, _update_summary_metrics) and the HTTP handlers *)
(* api_run, api_status and api_stop, all sharing the one lock runs_lock.   *)
(*                                                                         *)
(* Text is modelled at the granularity of atoms: a line is a sequence of   *)
(* strings, each either a separator (" ", ":", "=", "\n") or a maximal run *)
(* of other characters ("Total", "40", "bad").  strip, split, startswith   *)
(* and the substring test work on these sequences as Python's do on        *)
(* characters.  Floats are kept as integers scaled by 1000 (throughput),   *)
(* 100 (average_wait) and 10 (traffic_density, congestion_level).          *)
(***************************************************************************)
EXTENDS Integers, Sequences, FiniteSets, TLC

\* ---------------------------------------------------------------- bounds
MaxRuns == 1
MaxOut == 2
PipeCap == 1
LongLog == 1000

\* ------------------------------------------------------ program constants
LOG_TAIL == 300

RunIds == 1..MaxRuns
None == <<>>

\* the handle subprocess.Popen returns for the subprocess of run r
Popen(r) == <<"Popen", r>>
Pid(proc) == proc[2]

\* ------------------------------------------------------- text primitives
IsSpace(a) == a \in {" ", "\n"}

RECURSIVE LStrip(_)
LStrip(s) == IF s # <<>> /\ IsSpace(Head(s)) THEN LStrip(Tail(s)) ELSE s

RECURSIVE RStrip(_)
RStrip(s) ==
    IF s # <<>> /\ IsSpace(s[Len(s)]) THEN RStrip(SubSeq(s, 1, Len(s) - 1)) ELSE s

\* str.strip()
Strip(s) == RStrip(LStrip(s))

\* str.rstrip("\n")
RECURSIVE RStripNewline(_)
RStripNewline(s) ==
    IF s # <<>> /\ s[Len(s)] = "\n"
    THEN RStripNewline(SubSeq(s, 1, Len(s) - 1))
    ELSE s

\* str.startswith(p)
StartsWith(s, p) == Len(s) >= Len(p) /\ SubSeq(s, 1, Len(p)) = p

\* p in s
Contains(s, p) ==
    \E i \in 1..(Len(s) - Len(p) + 1) : SubSeq(s, i, i + Len(p) - 1) = p

\* str.split(sep): the pieces between the occurrences of sep, empty ones kept
RECURSIVE SplitAcc(_, _, _, _)
SplitAcc(s, sep, cur, acc) ==
    IF s = <<>> THEN Append(acc, cur)
    ELSE IF Head(s) = sep THEN SplitAcc(Tail(s), sep, <<>>, Append(acc, cur))
    ELSE SplitAcc(Tail(s), sep, Append(cur, Head(s)), acc)

Split(s, sep) == SplitAcc(s, sep, <<>>, <<>>)

\* str.split(): the maximal runs of non-whitespace
RECURSIVE SplitWsAcc(_, _, _)
SplitWsAcc(s, cur, acc) ==
    IF s = <<>> THEN (IF cur = <<>> THEN acc ELSE Append(acc, cur))
    ELSE IF IsSpace(Head(s))
         THEN SplitWsAcc(Tail(s), <<>>, IF cur = <<>> THEN acc ELSE Append(acc, cur))
         ELSE SplitWsAcc(Tail(s), Append(cur, Head(s)), acc)

SplitWs(s) == SplitWsAcc(s, <<>>, <<>>)

\* ------------------------------------------------------ number literals
\* The literals of the modelled output, with their value scaled by 1000.
IntLiterals ==
    ("0" :> 0) @@ ("1" :> 1) @@ ("2" :> 2) @@ ("3" :> 3) @@ ("4" :> 4)
    @@ ("5" :> 5) @@ ("9" :> 9) @@ ("38" :> 38) @@ ("40" :> 40)
    @@ ("100" :> 100) @@ ("120" :> 120) @@ ("-1" :> -1) @@ ("-3" :> -3)

FracLiterals ==
    ("2.5" :> 2500) @@ ("0.5" :> 500) @@ ("1.9" :> 1900) @@ ("-0.5" :> -500)
    @@ ("-1.5" :> -1500)

Raise == [ok |-> FALSE, val |-> 0]
Ok(v) == [ok |-> TRUE, val |-> v]

\* int(s) of a string: one integer literal, surrounding whitespace allowed
PyInt(s) ==
    LET t == Strip(s)
    IN  IF Len(t) = 1 /\ t[1] \in DOMAIN IntLiterals
        THEN Ok(IntLiterals[t[1]]) ELSE Raise

\* float(s), scaled by 1000
PyFloat(s) ==
    LET t == Strip(s)
    IN  IF Len(t) = 1 /\ t[1] \in DOMAIN IntLiterals THEN Ok(1000 * IntLiterals[t[1]])
        ELSE IF Len(t) = 1 /\ t[1] \in DOMAIN FracLiterals THEN Ok(FracLiterals[t[1]])
        ELSE Raise

\* int(x) of a float x (scaled by 1000): truncation towards zero
TruncMilli(m) == IF m >= 0 THEN m \div 1000 ELSE -((-m) \div 1000)

\* int(float(s))
PyIntFloat(s) ==
    LET f == PyFloat(s) IN IF f.ok THEN Ok(TruncMilli(f.val)) ELSE Raise

\* round(n / d * scale) for d > 0, ties to even, as round() of a float
RoundDiv(n, d) ==
    LET q == n \div d
        r == n % d
    IN  IF 2 * r < d THEN q
        ELSE IF 2 * r > d THEN q + 1
        ELSE IF q % 2 = 0 THEN q ELSE q + 1

\* --------------------------------------------------------- SimulationRun
LaneZero == [total |-> 0, car |-> 0, bus |-> 0, truck |-> 0, rickshaw |-> 0, bike |-> 0]

InitStats ==
    [phase |-> <<>>,
     lanes |-> [n \in 1..4 |-> 0],
     lane_details |-> [n \in 1..4 |-> LaneZero],
     total_vehicles |-> 0,
     total_time |-> 0,
     throughput |-> 0,
     traffic_density |-> 0,
     average_wait |-> 0,
     congestion_level |-> 0]

\* SimulationRun.__init__
SimulationRun(run_id, params) ==
    [run_id |-> run_id,
     params |-> params,
     log_lines |-> <<>>,
     status |-> "running",
     stats |-> InitStats,
     process |-> None]

\* dict item assignment d[k] = v
SetItem(d, k, v) == (k :> v) @@ d

\* dict.get(k, default)
Get(d, k, default) == IF k \in DOMAIN d THEN d[k] ELSE default

\* ------------------------------------------------ _update_summary_metrics
\* the recompute without the assignment of line 267: congestion_level keeps
\* its former value
_update_summary_metrics_without_congestion(run) ==
    LET total_time == run.stats.total_time
        total_vehicles == run.stats.total_vehicles
        average_wait ==
            IF total_vehicles > 0
            THEN (IF total_time < 0 THEN 0 ELSE RoundDiv(100 * total_time, total_vehicles))
            ELSE 0
        sim_time == IF run.params.sim_time = 0 THEN 1 ELSE run.params.sim_time
        capacity == IF sim_time * 4 <= 0 THEN 1 ELSE sim_time * 4
        traffic_density ==
            IF total_vehicles >= capacity THEN 1000
            ELSE RoundDiv(1000 * total_vehicles, capacity)
    IN  [run EXCEPT !.stats.average_wait = average_wait,
                    !.stats.traffic_density = traffic_density]

_update_summary_metrics(run) ==
    LET total_time == run.stats.total_time
        total_vehicles == run.stats.total_vehicles
        \* round(max(0, total_time / total_vehicles), 2), in hundredths
        average_wait ==
            IF total_vehicles > 0
            THEN (IF total_time < 0 THEN 0 ELSE RoundDiv(100 * total_time, total_vehicles))
            ELSE 0
        sim_time == IF run.params.sim_time = 0 THEN 1 ELSE run.params.sim_time
        capacity == IF sim_time * 4 <= 0 THEN 1 ELSE sim_time * 4
        \* round(min(1.0, total_vehicles / capacity) * 100, 1), in tenths
        traffic_density ==
            IF total_vehicles >= capacity THEN 1000
            ELSE RoundDiv(1000 * total_vehicles, capacity)
    IN  [run EXCEPT !.stats.average_wait = average_wait,
                    !.stats.traffic_density = traffic_density,
                    !.stats.congestion_level = traffic_density]

\* ------------------------------------------------- _parse_stats_from_line
GREEN_TS == <<"GREEN", " ", "TS">>
YELLOW_TS == <<"YELLOW", " ", "TS">>
RED_TS == <<"RED", " ", "TS">>

\* the loop of lines 173-175 and 235-237: key, value = part.split("=")
RECURSIVE KeyValues(_, _)
KeyValues(parts, data) ==
    IF parts = <<>> THEN Ok(data)
    ELSE LET kv == Split(Head(parts), "=")
         IN  IF Len(kv) # 2 THEN Raise
             ELSE KeyValues(Tail(parts), SetItem(data, kv[1], kv[2]))

\* a phase branch without its test: every line becomes the phase
ParsePhase_every_line(run, line) ==
    [run EXCEPT !.stats.phase = line]

ParsePhase(run, line) ==
    IF Contains(line, GREEN_TS) \/ Contains(line, YELLOW_TS) \/ Contains(line, RED_TS)
    THEN [run EXCEPT !.stats.phase = line]
    ELSE run

\* the LANE_STATS branch storing the total alone: the counts per class of the
\* lane's record are kept
ParseLaneStats_total_only(run, line) ==
    IF ~StartsWith(line, <<"LANE_STATS">>) THEN run
    ELSE
    LET data == KeyValues(Tail(SplitWs(line)), <<>>)
        field(k) == PyInt(Get(data.val, <<k>>, <<"0">>))
        lane_idx == field("lane")
    IN  IF ~data.ok \/ ~lane_idx.ok THEN run
        ELSE IF lane_idx.val = 0 THEN run
        ELSE IF \E k \in {"total", "car", "bus", "truck", "rickshaw", "bike"} : ~field(k).ok
             THEN run
        ELSE [run EXCEPT
                !.stats.lanes = SetItem(@, lane_idx.val, field("total").val),
                !.stats.lane_details =
                    SetItem(@, lane_idx.val,
                            [Get(@, lane_idx.val, LaneZero) EXCEPT
                               !.total = field("total").val])]

ParseLaneStats(run, line) ==
    IF ~StartsWith(line, <<"LANE_STATS">>) THEN run
    ELSE
    LET data == KeyValues(Tail(SplitWs(line)), <<>>)
        field(k) == PyInt(Get(data.val, <<k>>, <<"0">>))
        lane_idx == field("lane")
    IN  IF ~data.ok \/ ~lane_idx.ok THEN run
        ELSE IF lane_idx.val = 0 THEN run
        ELSE IF \E k \in {"total", "car", "bus", "truck", "rickshaw", "bike"} : ~field(k).ok
             THEN run
        ELSE [run EXCEPT
                !.stats.lanes = SetItem(@, lane_idx.val, field("total").val),
                !.stats.lane_details =
                    SetItem(@, lane_idx.val,
                            [total |-> field("total").val, car |-> field("car").val,
                             bus |-> field("bus").val, truck |-> field("truck").val,
                             rickshaw |-> field("rickshaw").val,
                             bike |-> field("bike").val])]

ParseLaneTotal(run, line) ==
    IF ~(StartsWith(line, <<"Lane", " ">>) /\ Contains(line, <<"Total", ":">>)) THEN run
    ELSE
    LET parts == Split(line, ":")
        words == SplitWs(Strip(parts[1]))
        total_part == IF Len(parts) > 2 THEN Strip(parts[3]) ELSE <<>>
        lane_num == IF Len(words) < 2 THEN Raise ELSE PyInt(words[2])
        total_val == PyInt(total_part)
    IN  IF ~lane_num.ok \/ ~total_val.ok THEN run
        ELSE [run EXCEPT !.stats.lanes = SetItem(@, lane_num.val, total_val.val)]

\* line.split(":")[1].strip()
AfterColon(line) ==
    LET parts == Split(line, ":")
    IN  IF Len(parts) < 2 THEN [ok |-> FALSE, val |-> <<>>]
        ELSE [ok |-> TRUE, val |-> Strip(parts[2])]

ParseTotalVehicles(run, line) ==
    IF ~StartsWith(line, <<"Total", " ", "vehicles", " ", "passed">>) THEN run
    ELSE
    LET s == AfterColon(line)
        v == IF s.ok THEN PyIntFloat(s.val) ELSE Raise
    IN  IF v.ok THEN [run EXCEPT !.stats.total_vehicles = v.val] ELSE run

ParseTotalTime(run, line) ==
    IF ~StartsWith(line, <<"Total", " ", "time", " ", "passed">>) THEN run
    ELSE
    LET s == AfterColon(line)
        v == IF s.ok THEN PyIntFloat(s.val) ELSE Raise
    IN  _update_summary_metrics(IF v.ok THEN [run EXCEPT !.stats.total_time = v.val] ELSE run)

THROUGHPUT_PREFIX ==
    <<"No.", " ", "of", " ", "vehicles", " ", "passed", " ", "per", " ", "unit", " ", "time">>

ParseThroughput(run, line) ==
    IF ~StartsWith(line, THROUGHPUT_PREFIX) THEN run
    ELSE
    LET s == AfterColon(line)
        v == IF s.ok THEN PyFloat(s.val) ELSE Raise
    IN  _update_summary_metrics(IF v.ok THEN [run EXCEPT !.stats.throughput = v.val] ELSE run)

ParseSummary(run, line) ==
    IF ~StartsWith(line, <<"SUMMARY">>) THEN run
    ELSE
    LET data == KeyValues(Tail(SplitWs(line)), <<>>)
        has(k) == data.ok /\ <<k>> \in DOMAIN data.val
        total == IF has("total") THEN PyIntFloat(data.val[<<"total">>]) ELSE Raise
        time == IF has("time") THEN PyIntFloat(data.val[<<"time">>]) ELSE Raise
        thr == IF has("throughput") THEN PyFloat(data.val[<<"throughput">>]) ELSE Raise
        \* the three assignments run in order; the first one to raise ends the try
        r1 == IF has("total") /\ total.ok
              THEN [run EXCEPT !.stats.total_vehicles = total.val] ELSE run
        go2 == data.ok /\ (has("total") => total.ok)
        r2 == IF go2 /\ has("time") /\ time.ok
              THEN [r1 EXCEPT !.stats.total_time = time.val] ELSE r1
        go3 == go2 /\ (has("time") => time.ok)
        r3 == IF go3 /\ has("throughput") /\ thr.ok
              THEN [r2 EXCEPT !.stats.throughput = thr.val] ELSE r2
    IN  _update_summary_metrics(r3)

ParseComplete(run, line) ==
    IF StartsWith(line, <<"SIMULATION_COMPLETE">>)
    THEN [run EXCEPT !.status = "finished"]
    ELSE run

_parse_stats_from_line(run, raw) ==
    LET line == Strip(raw)
    IN  IF line = <<>> THEN run
        ELSE ParseComplete(
               ParseSummary(
                 ParseThroughput(
                   ParseTotalTime(
                     ParseTotalVehicles(
                       ParseLaneTotal(
                         ParseLaneStats(
                           ParsePhase(run, line), line), line), line), line), line), line), line)


\* ------------------------------------------------------------ log lines
STOP_REQUESTED == <<"[system]", " ", "stop", " ", "requested", " ", "by", " ", "user">>
HALTED == <<"[system]", " ", "simulation", " ", "halted", " ", "by", " ", "user">>
BackendError(exc) == <<"[backend", " ", "error]", " ", exc>>

\* what simulation.py writes to its stdout, newline included
SIMULATION_COMPLETE == <<"SIMULATION_COMPLETE", "\n">>
TOTAL_TIME_100 == <<"Total", " ", "time", " ", "passed", ":", " ", "100", "\n">>
\* bytes that the text-mode pipe cannot decode
UNDECODABLE == <<"\\xff", "\n">>

OutputLines == {SIMULATION_COMPLETE, TOTAL_TIME_100, UNDECODABLE}

\* the JSON bodies of POST /api/run
Payloads ==
    {[sim_time |-> 50, min_green |-> 10, max_green |-> 60],
     [sim_time |-> 0, min_green |-> 10, max_green |-> 5]}

\* ---------------------------------------------------------------- state
VARIABLES
    runs,       \* the registry: run_id -> SimulationRun
    procs,      \* the operating system's view of each run's subprocess
    worker,     \* the thread running _run_simulation_subprocess for each run
    lock,       \* the holder of runs_lock
    handler,    \* the status or stop request being served
    hist,       \* history: which runs api_stop was called on, and the lines
                \* each subprocess has written so far
    calls       \* the calls of api_run, in the order of their uuid4()

vars == <<runs, procs, worker, lock, handler, hist, calls>>

Free == <<>>
Idle == [op |-> "none"]
NotFound == [code |-> 404, error |-> "run not found"]
Terminal == {"finished", "error", "stopped"}

NoProc == [state |-> "none", returncode |-> None, pipe |-> <<>>, emitted |-> 0,
           signals |-> {}]
NoThread == [pc |-> "unborn", line |-> <<>>, exc |-> ""]
NoHist == [stop_called |-> FALSE, stop_on_running |-> FALSE, written |-> <<>>]

Init ==
    /\ runs = <<>>
    /\ procs = [r \in RunIds |-> NoProc]
    /\ worker = [r \in RunIds |-> NoThread]
    /\ lock = Free
    /\ handler = Idle
    /\ hist = [r \in RunIds |-> NoHist]
    /\ calls = <<>>

\* ------------------------------------------------------- the subprocess
\* simulation.py is opaque: it writes any of OutputLines, at most MaxOut of
\* them, into a pipe that holds PipeCap lines, may ignore SIGTERM, and exits
\* when it likes with its own code or with the code of a signal it was sent.
\* simulation.py writes one more line to its stdout pipe
proc_write(r) ==
    /\ procs[r].state = "alive"
    /\ "KILL" \notin procs[r].signals
    /\ procs[r].emitted < MaxOut
    /\ Len(procs[r].pipe) < PipeCap
    /\ \E line \in OutputLines :
         /\ procs' = [procs EXCEPT ![r].pipe = Append(@, line), ![r].emitted = @ + 1]
         /\ hist' = [hist EXCEPT ![r].written = Append(@, line)]
    /\ UNCHANGED <<runs, worker, lock, handler, calls>>

\* the exit codes a subprocess can end with: its own, or the signal's
ExitCodes(signals) ==
    {0, 1} \cup (IF "TERM" \in signals THEN {-15} ELSE {})
           \cup (IF "KILL" \in signals THEN {-9} ELSE {})

proc_exit(r) ==
    /\ procs[r].state = "alive"
    /\ \E code \in ExitCodes(procs[r].signals) :
         procs' = [procs EXCEPT ![r].state = "exited", ![r].returncode = code]
    /\ UNCHANGED <<runs, worker, lock, handler, hist, calls>>

\* -------------------------------------------- _run_simulation_subprocess
\* The thread's position is worker[r].pc: popen, stdout, read, append, parse,
\* wait, exit, except, done.  Spawning the subprocess and storing its handle
\* in run.process are one step: api_stop sees no handle before either.
\* a worker that marks the run as running once its subprocess has started
worker_popen_sets_running(r) ==
    /\ worker[r].pc = "popen"
    /\ \/ /\ procs' = [procs EXCEPT ![r].state = "alive"]
          /\ runs' = [runs EXCEPT ![r].process = Popen(r), ![r].status = "running"]
          /\ worker' = [worker EXCEPT ![r].pc = "stdout"]
       \/ /\ worker' = [worker EXCEPT ![r].pc = "except", ![r].exc = "OSError"]
          /\ UNCHANGED <<runs, procs>>
    /\ UNCHANGED <<lock, handler, hist, calls>>

\* lines 286-294: run.process = subprocess.Popen(...), or Popen raises
worker_popen(r) ==
    /\ worker[r].pc = "popen"
    /\ \/ /\ procs' = [procs EXCEPT ![r].state = "alive"]
          /\ runs' = [runs EXCEPT ![r].process = Popen(r)]
          /\ worker' = [worker EXCEPT ![r].pc = "stdout"]
       \/ /\ worker' = [worker EXCEPT ![r].pc = "except", ![r].exc = "OSError"]
          /\ UNCHANGED <<runs, procs>>
    /\ UNCHANGED <<lock, handler, hist, calls>>

\* lines 296-298: run.process.stdout is evaluated, outside the lock
worker_stdout(r) ==
    /\ worker[r].pc = "stdout"
    /\ worker' = IF runs[r].process = None
                 THEN [worker EXCEPT ![r].pc = "except", ![r].exc = "AttributeError"]
                 ELSE [worker EXCEPT ![r].pc = "read"]
    /\ UNCHANGED <<runs, procs, lock, handler, hist, calls>>

\* line 298: the next line of the pipe, or its end once the subprocess is gone
worker_read(r) ==
    /\ worker[r].pc = "read"
    /\ \/ /\ procs[r].pipe # <<>>
          /\ procs' = [procs EXCEPT ![r].pipe = Tail(@)]
          /\ worker' = IF Head(procs[r].pipe) = UNDECODABLE
                       THEN [worker EXCEPT ![r].pc = "except",
                                           ![r].exc = "UnicodeDecodeError"]
                       ELSE [worker EXCEPT ![r].pc = "append",
                                           ![r].line = Head(procs[r].pipe)]
       \/ /\ procs[r].pipe = <<>>
          /\ procs[r].state = "exited"
          /\ worker' = [worker EXCEPT ![r].pc = "wait"]
          /\ UNCHANGED procs
    /\ UNCHANGED <<runs, lock, handler, hist, calls>>

\* a worker that logs a line only while the run is not stopped
worker_append_unless_stopped(r) ==
    /\ worker[r].pc = "append"
    /\ lock = Free
    /\ lock' = <<"worker", r>>
    /\ runs' = IF runs[r].status = "stopped" THEN runs
               ELSE [runs EXCEPT
                       ![r].log_lines = Append(@, RStripNewline(worker[r].line))]
    /\ worker' = [worker EXCEPT ![r].pc = "parse"]
    /\ UNCHANGED <<procs, handler, hist, calls>>

\* lines 299-300: with runs_lock: run.log_lines.append(line.rstrip("\n"))
worker_append(r) ==
    /\ worker[r].pc = "append"
    /\ lock = Free
    /\ lock' = <<"worker", r>>
    /\ runs' = [runs EXCEPT ![r].log_lines = Append(@, RStripNewline(worker[r].line))]
    /\ worker' = [worker EXCEPT ![r].pc = "parse"]
    /\ UNCHANGED <<procs, handler, hist, calls>>

\* line 301: _parse_stats_from_line(run, line), and the lock is released
worker_parse(r) ==
    /\ worker[r].pc = "parse"
    /\ lock = <<"worker", r>>
    /\ runs' = [runs EXCEPT ![r] = _parse_stats_from_line(@, worker[r].line)]
    /\ lock' = Free
    /\ worker' = [worker EXCEPT ![r].pc = "read", ![r].line = <<>>]
    /\ UNCHANGED <<procs, handler, hist, calls>>

\* line 303: run.process.wait(); run.process is read outside the lock
worker_wait(r) ==
    /\ worker[r].pc = "wait"
    /\ \/ /\ runs[r].process = None
          /\ worker' = [worker EXCEPT ![r].pc = "except", ![r].exc = "AttributeError"]
       \/ /\ runs[r].process # None
          /\ procs[Pid(runs[r].process)].state = "exited"
          /\ worker' = [worker EXCEPT ![r].pc = "exit"]
    /\ UNCHANGED <<runs, procs, lock, handler, hist, calls>>

\* a worker that removes its run from the registry when the subprocess ended
worker_exit_forgets(r) ==
    /\ worker[r].pc = "exit"
    /\ lock = Free
    /\ runs' = [k \in DOMAIN runs \ {r} |-> runs[k]]
    /\ worker' = [worker EXCEPT ![r].pc = "done"]
    /\ UNCHANGED <<procs, lock, handler, hist, calls>>

\* lines 304-312, one critical section
worker_exit(r) ==
    /\ worker[r].pc = "exit"
    /\ lock = Free
    /\ IF runs[r].status = "stopped"
       THEN /\ runs' = [runs EXCEPT ![r].log_lines = Append(@, HALTED),
                                    ![r].process = None]
            /\ worker' = [worker EXCEPT ![r].pc = "done"]
       ELSE IF runs[r].process = None
       THEN /\ worker' = [worker EXCEPT ![r].pc = "except", ![r].exc = "AttributeError"]
            /\ UNCHANGED runs
       ELSE /\ runs' = [runs EXCEPT
                          ![r].status = IF procs[Pid(runs[r].process)].returncode = 0
                                        THEN "finished" ELSE "error",
                          ![r].process = None]
            /\ worker' = [worker EXCEPT ![r].pc = "done"]
    /\ UNCHANGED <<procs, lock, handler, hist, calls>>

\* worker_except with line 316 left out: the fault is logged, the status kept
worker_except_keeps_status(r) ==
    /\ worker[r].pc = "except"
    /\ lock = Free
    /\ runs' = [runs EXCEPT ![r].log_lines = Append(@, BackendError(worker[r].exc))]
    /\ worker' = [worker EXCEPT ![r].pc = "done"]
    /\ UNCHANGED <<procs, lock, handler, hist, calls>>

\* worker_except with line 315 left out: the status is set, nothing is logged
worker_except_logs_nothing(r) ==
    /\ worker[r].pc = "except"
    /\ lock = Free
    /\ runs' = [runs EXCEPT ![r].status = "error"]
    /\ worker' = [worker EXCEPT ![r].pc = "done"]
    /\ UNCHANGED <<procs, lock, handler, hist, calls>>

\* lines 313-316: except Exception as exc
worker_except(r) ==
    /\ worker[r].pc = "except"
    /\ lock = Free
    /\ runs' = [runs EXCEPT ![r].log_lines = Append(@, BackendError(worker[r].exc)),
                            ![r].status = "error"]
    /\ worker' = [worker EXCEPT ![r].pc = "done"]
    /\ UNCHANGED <<procs, lock, handler, hist, calls>>


\* ------------------------------------------------------------- handlers
\* One status or stop request is served at a time: api_status and api_stop run
\* their whole body inside "with runs_lock", so the lock serialises them
\* anyway.  A handler that holds the lock keeps it until api_return.  The calls
\* of api_run take the lock only for the insertion of line 373, so any number
\* of them are in flight at once.  The worker's steps outside the lock (Popen,
\* reading the pipe, run.process.wait()) and the subprocess interleave with
\* all of them freely.
\* run.log_lines[:n] in the place of run.log_lines[-n:]
FirstLines(log_lines, n) ==
    SubSeq(log_lines, 1, IF Len(log_lines) > n THEN n ELSE Len(log_lines))

\* run.log_lines[-n:]
LastLines(log_lines, n) ==
    SubSeq(log_lines, IF Len(log_lines) > n THEN Len(log_lines) - n + 1 ELSE 1,
           Len(log_lines))

\* the identifiers uuid4 has returned to the calls of api_run so far
issued == {calls[c].run_id : c \in DOMAIN calls}

\* a generator that may return an identifier it has returned before
uuid4_repeats == DOMAIN worker

\* uuid.uuid4(): 122 random bits, taken as an identifier never returned before
uuid4 == DOMAIN worker \ issued

\* lines 361-370: a call draws its run_id and builds the record, outside the
\* lock, while other calls of api_run may be anywhere in theirs
api_run(payload) ==
    /\ Len(calls) < Cardinality(DOMAIN worker)
    /\ \E run_id \in uuid4 :
         calls' = Append(calls, [run_id |-> run_id, pc |-> "register",
                                 run |-> SimulationRun(run_id, payload)])
    /\ UNCHANGED <<runs, procs, worker, lock, handler, hist>>

\* lines 372-377: runs[run_id] = run inside the lock, then the thread is started
api_run_register(c) ==
    /\ c \in DOMAIN calls
    /\ calls[c].pc = "register"
    /\ lock = Free
    /\ runs' = SetItem(runs, calls[c].run_id, calls[c].run)
    /\ worker' = [worker EXCEPT ![calls[c].run_id].pc = "popen"]
    /\ calls' = [calls EXCEPT ![c] = [run_id |-> @.run_id, pc |-> "jsonify"]]
    /\ UNCHANGED <<procs, lock, handler, hist>>

\* line 379: run.status is read after the thread was started, and returned
api_run_jsonify(c) ==
    /\ c \in DOMAIN calls
    /\ calls[c].pc = "jsonify"
    /\ calls' = [calls EXCEPT ![c] =
                   [run_id |-> @.run_id, pc |-> "done",
                    response |-> [code |-> 200, run_id |-> @.run_id,
                                  status |-> runs[@.run_id].status]]]
    /\ UNCHANGED <<runs, procs, worker, lock, handler, hist>>

\* api_status without "with runs_lock": the record is read whoever holds the lock
api_status_unlocked(run_id) ==
    /\ handler = Idle
    /\ handler' =
         [op |-> "status", run_id |-> run_id, pc |-> "return",
          response |->
            IF run_id \notin DOMAIN runs THEN NotFound
            ELSE [code |-> 200,
                  run_id |-> runs[run_id].run_id,
                  status |-> runs[run_id].status,
                  params |-> runs[run_id].params,
                  log |-> LastLines(runs[run_id].log_lines, LOG_TAIL),
                  stats |-> runs[run_id].stats]]
    /\ UNCHANGED <<runs, procs, worker, lock, hist, calls>>

\* api_status that hands the log over: the lines it returns are removed from
\* the record
api_status_drains(run_id) ==
    /\ handler = Idle
    /\ lock = Free
    /\ lock' = <<"handler">>
    /\ handler' =
         [op |-> "status", run_id |-> run_id, pc |-> "return",
          response |->
            IF run_id \notin DOMAIN runs THEN NotFound
            ELSE [code |-> 200,
                  run_id |-> runs[run_id].run_id,
                  status |-> runs[run_id].status,
                  params |-> runs[run_id].params,
                  log |-> LastLines(runs[run_id].log_lines, LOG_TAIL),
                  stats |-> runs[run_id].stats]]
    /\ runs' = IF run_id \notin DOMAIN runs THEN runs
               ELSE [runs EXCEPT ![run_id].log_lines =
                       SubSeq(@, 1, Len(@) - Len(LastLines(@, LOG_TAIL)))]
    /\ UNCHANGED <<procs, worker, hist, calls>>

\* lines 384-400: the response is built inside the critical section
api_status(run_id) ==
    /\ handler = Idle
    /\ lock = Free
    /\ lock' = <<"handler">>
    /\ handler' =
         [op |-> "status", run_id |-> run_id, pc |-> "return",
          response |->
            IF run_id \notin DOMAIN runs THEN NotFound
            ELSE [code |-> 200,
                  run_id |-> runs[run_id].run_id,
                  status |-> runs[run_id].status,
                  params |-> runs[run_id].params,
                  log |-> LastLines(runs[run_id].log_lines, LOG_TAIL),
                  stats |-> runs[run_id].stats]]
    /\ UNCHANGED <<runs, procs, worker, hist, calls>>

Stopped(run_id) == [code |-> 200, run_id |-> run_id, status |-> "stopped"]

\* lines 418-419
StopRecord(run) == [run EXCEPT !.status = "stopped", !.process = None]

\* api_stop that answers an unknown run_id as if it had stopped the run
api_stop_unknown_stopped(run_id) ==
    /\ handler = Idle
    /\ lock = Free
    /\ lock' = <<"handler">>
    /\ IF run_id \notin DOMAIN runs
       THEN /\ handler' = [op |-> "stop", run_id |-> run_id, pc |-> "return",
                           response |-> Stopped(run_id)]
            /\ UNCHANGED <<runs, procs, hist>>
       ELSE LET run == runs[run_id]
                proc == run.process
                entry == [status |-> run.status, log_lines |-> run.log_lines,
                          process |-> proc, signals |-> procs[run_id].signals]
            IN  /\ hist' = [hist EXCEPT
                              ![run_id].stop_called = TRUE,
                              ![run_id].stop_on_running = @ \/ run.status = "running"]
                /\ IF proc # None /\ procs[Pid(proc)].state = "alive"
                   THEN /\ runs' = [runs EXCEPT
                                      ![run_id].log_lines = Append(@, STOP_REQUESTED)]
                        /\ procs' = [procs EXCEPT ![Pid(proc)].signals = @ \cup {"TERM"}]
                        /\ handler' = [op |-> "stop", run_id |-> run_id, pc |-> "wait",
                                       proc |-> proc, entry |-> entry]
                   ELSE /\ runs' = [runs EXCEPT ![run_id] = StopRecord(@)]
                        /\ handler' = [op |-> "stop", run_id |-> run_id, pc |-> "return",
                                       proc |-> proc, entry |-> entry,
                                       response |-> Stopped(run_id)]
                        /\ UNCHANGED procs
    /\ UNCHANGED <<worker, calls>>

\* lines 405-413, and 418-419 when there is no live subprocess to end
api_stop(run_id) ==
    /\ handler = Idle
    /\ lock = Free
    /\ lock' = <<"handler">>
    /\ IF run_id \notin DOMAIN runs
       THEN /\ handler' = [op |-> "stop", run_id |-> run_id, pc |-> "return",
                           response |-> NotFound]
            /\ UNCHANGED <<runs, procs, hist>>
       ELSE LET run == runs[run_id]
                proc == run.process
                entry == [status |-> run.status, log_lines |-> run.log_lines,
                          process |-> proc, signals |-> procs[run_id].signals]
            IN  /\ hist' = [hist EXCEPT
                              ![run_id].stop_called = TRUE,
                              ![run_id].stop_on_running = @ \/ run.status = "running"]
                /\ IF proc # None /\ procs[Pid(proc)].state = "alive"
                   THEN /\ runs' = [runs EXCEPT
                                      ![run_id].log_lines = Append(@, STOP_REQUESTED)]
                        /\ procs' = [procs EXCEPT ![Pid(proc)].signals = @ \cup {"TERM"}]
                        /\ handler' = [op |-> "stop", run_id |-> run_id, pc |-> "wait",
                                       proc |-> proc, entry |-> entry]
                   ELSE /\ runs' = [runs EXCEPT ![run_id] = StopRecord(@)]
                        /\ handler' = [op |-> "stop", run_id |-> run_id, pc |-> "return",
                                       proc |-> proc, entry |-> entry,
                                       response |-> Stopped(run_id)]
                        /\ UNCHANGED procs
    /\ UNCHANGED <<worker, calls>>

\* line 415: proc.wait(timeout=3) returns, the subprocess is gone
api_stop_waited ==
    /\ handler.op = "stop"
    /\ handler.pc = "wait"
    /\ procs[Pid(handler.proc)].state = "exited"
    /\ runs' = [runs EXCEPT ![handler.run_id] = StopRecord(@)]
    /\ handler' = [handler EXCEPT !.pc = "return"] @@
                  [response |-> Stopped(handler.run_id)]
    /\ UNCHANGED <<procs, worker, lock, hist, calls>>

\* proc.wait() without a timeout: api_stop goes on only once the subprocess
\* is gone
api_stop_wait_unbounded ==
    /\ handler.op = "stop"
    /\ handler.pc = "wait"
    /\ procs[Pid(handler.proc)].state = "exited"
    /\ runs' = [runs EXCEPT ![handler.run_id] = StopRecord(@)]
    /\ handler' = [handler EXCEPT !.pc = "return"] @@
                  [response |-> Stopped(handler.run_id)]
    /\ UNCHANGED <<procs, worker, lock, hist, calls>>

\* lines 416-417: the wait times out on a live subprocess, proc.kill()
api_stop_timeout ==
    /\ handler.op = "stop"
    /\ handler.pc = "wait"
    /\ procs[Pid(handler.proc)].state = "alive"
    /\ procs' = [procs EXCEPT ![Pid(handler.proc)].signals = @ \cup {"KILL"}]
    /\ runs' = [runs EXCEPT ![handler.run_id] = StopRecord(@)]
    /\ handler' = [handler EXCEPT !.pc = "return"] @@
                  [response |-> Stopped(handler.run_id)]
    /\ UNCHANGED <<worker, lock, hist, calls>>

\* the handler leaves its critical section and its response goes out
api_return ==
    /\ handler # Idle
    /\ handler.pc = "return"
    /\ handler' = Idle
    /\ lock' = IF lock = <<"handler">> THEN Free ELSE lock
    /\ UNCHANGED <<runs, procs, worker, hist, calls>>

\* ------------------------------------------------------ the specification
\* the <run_id> of a request's URL: any identifier uuid4 can issue, and one it
\* never issues
RequestIds == 0..MaxRuns

Next ==
    \/ \E payload \in Payloads : api_run(payload)
    \/ \E c \in RunIds : api_run_register(c)
    \/ \E c \in RunIds : api_run_jsonify(c)
    \/ \E run_id \in RequestIds : api_status(run_id)
    \/ \E run_id \in RequestIds : api_stop(run_id)
    \/ api_stop_waited
    \/ api_stop_timeout
    \/ api_return
    \/ \E r \in RunIds : proc_write(r)
    \/ \E r \in RunIds : proc_exit(r)
    \/ \E r \in RunIds : worker_popen(r)
    \/ \E r \in RunIds : worker_stdout(r)
    \/ \E r \in RunIds : worker_read(r)
    \/ \E r \in RunIds : worker_append(r)
    \/ \E r \in RunIds : worker_parse(r)
    \/ \E r \in RunIds : worker_wait(r)
    \/ \E r \in RunIds : worker_exit(r)
    \/ \E r \in RunIds : worker_except(r)

Spec == Init /\ [][Next]_vars


\* Fair scheduling: a thread that can take its next step takes it.  A handler
\* inside proc.wait(timeout=3) goes on when the subprocess is gone or the three
\* seconds are over, a handler that has its response returns, and a worker
\* that holds the lock parses its line and releases it.  Nothing is assumed
\* of the subprocess: it need not write and it need not exit.
\* worker_parse(r) is enabled exactly when worker[r].pc = "parse" and is the
\* only step that leaves that position, so weak fairness of it is written as
\* the position being left again and again.
Fairness ==
    /\ WF_vars(api_stop_waited)
    /\ WF_vars(api_stop_timeout)
    /\ WF_vars(api_return)
    /\ \A r \in RunIds : []<>(worker[r].pc # "parse")

FairSpec == Init /\ [][Next]_vars /\ Fairness


\* ------------------------------------------ a run that has logged a lot
\* A run whose subprocess has so far printed n lines that no pattern of
\* _parse_stats_from_line matches, all of them read and logged by its worker.
Ticks(n) == [i \in 1..n |-> <<ToString(i)>>]

LogLengths == {0, LOG_TAIL - 1, LOG_TAIL, LOG_TAIL + 1, LongLog, LongLog + 1}

InitTail ==
    /\ \E n \in LogLengths : \E payload \in Payloads :
         /\ runs = (1 :> [SimulationRun(1, payload) EXCEPT !.log_lines = Ticks(n),
                                                           !.process = Popen(1)])
         /\ hist = [r \in RunIds |->
                     IF r = 1
                     THEN [NoHist EXCEPT
                             !.written = [i \in 1..n |-> Append(Ticks(n)[i], "\n")]]
                     ELSE NoHist]
    /\ calls = <<[run_id |-> 1, pc |-> "done",
                  response |-> [code |-> 200, run_id |-> 1, status |-> "running"]]>>
    /\ procs = [r \in RunIds |-> IF r = 1 THEN [NoProc EXCEPT !.state = "alive"]
                                          ELSE NoProc]
    /\ worker = [r \in RunIds |-> IF r = 1 THEN [NoThread EXCEPT !.pc = "read"]
                                           ELSE NoThread]
    /\ lock = Free
    /\ handler = Idle

NextTail ==
    \/ \E run_id \in RequestIds : api_status(run_id)
    \/ \E run_id \in RequestIds : api_stop(run_id)
    \/ api_stop_waited
    \/ api_stop_timeout
    \/ api_return
    \/ \E r \in RunIds : proc_write(r)
    \/ \E r \in RunIds : proc_exit(r)
    \/ \E r \in RunIds : worker_read(r)
    \/ \E r \in RunIds : worker_append(r)
    \/ \E r \in RunIds : worker_parse(r)
    \/ \E r \in RunIds : worker_wait(r)
    \/ \E r \in RunIds : worker_exit(r)
    \/ \E r \in RunIds : worker_except(r)

SpecTail == InitTail /\ [][NextTail]_vars


\* ------------------------------------------------ many calls of api_run
\* Several clients call api_run at once; the threads the calls start have not
\* been scheduled yet.
MaxCalls == 2

CallIds == 1..MaxCalls

InitCalls ==
    /\ runs = <<>>
    /\ procs = [r \in CallIds |-> NoProc]
    /\ worker = [r \in CallIds |-> NoThread]
    /\ lock = Free
    /\ handler = Idle
    /\ hist = [r \in CallIds |-> NoHist]
    /\ calls = <<>>

NextCalls ==
    \/ \E payload \in Payloads : api_run(payload)
    \/ \E c \in CallIds : api_run_register(c)
    \/ \E c \in CallIds : api_run_jsonify(c)
    \/ \E run_id \in CallIds : api_status(run_id)
    \/ \E run_id \in CallIds : api_stop(run_id)
    \/ api_return

SpecCalls == InitCalls /\ [][NextCalls]_vars


\* --------------------------------------------- the lines of a simulation
\* A run whose subprocess prints statistics lines, at most MaxLines of them,
\* each of them read, logged and parsed by the worker.
MaxLines == 2

\* " key=value", as part.split("=") takes it apart
KV(key, value) == <<" ", key, "=", value>>

\* the six counts of a lane
LaneCounts ==
    {[total |-> 5, car |-> 3, bus |-> 1, truck |-> 0, rickshaw |-> 1, bike |-> 0],
     [total |-> 9, car |-> 4, bus |-> 2, truck |-> 1, rickshaw |-> 1, bike |-> 1]}

\* "LANE_STATS lane=2 total=5 car=3 bus=1 truck=0 rickshaw=1 bike=0"
LaneStatsLine(lane, d) ==
    <<"LANE_STATS">> \o KV("lane", ToString(lane)) \o KV("total", ToString(d.total))
        \o KV("car", ToString(d.car)) \o KV("bus", ToString(d.bus))
        \o KV("truck", ToString(d.truck)) \o KV("rickshaw", ToString(d.rickshaw))
        \o KV("bike", ToString(d.bike)) \o <<"\n">>

LaneLines == {LaneStatsLine(lane, d) : lane \in 1..4, d \in LaneCounts}

\* LANE_STATS lines with a lane that is no lane, or with a token that is no
\* key=integer
LANE_9 == <<"LANE_STATS">> \o KV("lane", "9") \o KV("total", "5") \o <<"\n">>
LANE_0 == <<"LANE_STATS">> \o KV("lane", "0") \o KV("total", "5") \o <<"\n">>
LANE_TOTAL_X == <<"LANE_STATS">> \o KV("lane", "2") \o KV("total", "x") \o <<"\n">>
LANE_NO_VALUE == <<"LANE_STATS">> \o KV("lane", "2") \o <<" ", "total", "\n">>

BadLaneLines == {LANE_9, LANE_0, LANE_TOTAL_X, LANE_NO_VALUE}

TotalVehiclesLine(v) == <<"Total", " ", "vehicles", " ", "passed", ":", " ", v, "\n">>
TotalTimeLine(v) == <<"Total", " ", "time", " ", "passed", ":", " ", v, "\n">>
ThroughputLine(v) == THROUGHPUT_PREFIX \o <<":", " ", v, "\n">>
SUMMARY_40_100 ==
    <<"SUMMARY">> \o KV("total", "40") \o KV("time", "100")
        \o KV("throughput", "0.5") \o <<"\n">>

TotalLines ==
    {TotalVehiclesLine("40"), TotalVehiclesLine("1"), TotalTimeLine("100"),
     TotalTimeLine("-3"), ThroughputLine("2.5"), SUMMARY_40_100}

\* "Lane 1: Total: 38", and the same with a field between the lane and the
\* total: "Lane 2: 3 cars: Total: 38"
LegacyLine(lane, v) == <<"Lane", " ", lane, ":", " ", "Total", ":", " ", v, "\n">>
LegacyLineWithField(lane, v) ==
    <<"Lane", " ", lane, ":", " ", "3", " ", "cars", ":", " ", "Total", ":", " ", v, "\n">>

LegacyLines == {LegacyLine("1", "38"), LegacyLineWithField("2", "38")}

\* lines of simulation.py that none of the branches of _parse_stats_from_line
\* tests for: a message, a legacy line in lower case, and an empty line
VEHICLE_CROSSED == <<"Vehicle", " ", "crossed", "\n">>
LOWER_CASE_LANE == <<"lane", " ", "1", ":", " ", "Total", ":", " ", "38", "\n">>
EMPTY_LINE == <<"\n">>
OtherLines == {VEHICLE_CROSSED, LOWER_CASE_LANE, EMPTY_LINE}

StatLines == LaneLines \cup BadLaneLines \cup TotalLines \cup LegacyLines \cup OtherLines

\* simulation.py prints one more statistics line
proc_write_stats(r) ==
    /\ procs[r].state = "alive"
    /\ procs[r].emitted < MaxLines
    /\ Len(procs[r].pipe) < PipeCap
    /\ \E line \in StatLines :
         /\ procs' = [procs EXCEPT ![r].pipe = Append(@, line), ![r].emitted = @ + 1]
         /\ hist' = [hist EXCEPT ![r].written = Append(@, line)]
    /\ UNCHANGED <<runs, worker, lock, handler, calls>>

InitLines ==
    /\ \E payload \in Payloads :
         runs = (1 :> [SimulationRun(1, payload) EXCEPT !.process = Popen(1)])
    /\ calls = <<[run_id |-> 1, pc |-> "done",
                  response |-> [code |-> 200, run_id |-> 1, status |-> "running"]]>>
    /\ procs = [r \in RunIds |-> IF r = 1 THEN [NoProc EXCEPT !.state = "alive"]
                                          ELSE NoProc]
    /\ worker = [r \in RunIds |-> IF r = 1 THEN [NoThread EXCEPT !.pc = "read"]
                                           ELSE NoThread]
    /\ lock = Free
    /\ handler = Idle
    /\ hist = [r \in RunIds |-> NoHist]

NextLines ==
    \/ \E r \in RunIds : proc_write_stats(r)
    \/ \E r \in RunIds : worker_read(r)
    \/ \E r \in RunIds : worker_append(r)
    \/ \E r \in RunIds : worker_parse(r)

SpecLines == InitLines /\ [][NextLines]_vars


\* =============================================================== claims
StopServed(r) == handler.op = "stop" /\ handler.run_id = r
CompleteLogged(r) ==
    \E i \in 1..Len(runs[r].log_lines) :
        StartsWith(runs[r].log_lines[i], <<"SIMULATION_COMPLETE">>)

\* C1: once api_stop was called on a run whose status was running, and both
\* api_stop and the run's worker have completed, the status is stopped.
C1_StopTakesPrecedence ==
    \A r \in DOMAIN runs :
        (hist[r].stop_on_running /\ worker[r].pc = "done" /\ ~StopServed(r))
            => runs[r].status = "stopped"

\* C2: finished, error and stopped are absorbing: no step changes a status
\* that is one of the three.
C2_TerminalAbsorbing ==
    [][\A r \in DOMAIN runs :
          runs[r].status \in Terminal => runs'[r].status = runs[r].status]_vars

\* C3: api_stop on a run whose status is already terminal answers stopped at
\* once and leaves the log and the process handle as they were and signals
\* no process.
C3_StopOnTerminalIsNoOp ==
    [][\A r \in DOMAIN runs :
          (handler = Idle /\ handler' # Idle /\ handler'.op = "stop"
           /\ handler'.run_id = r /\ runs[r].status \in Terminal)
          => /\ handler'.pc = "return"
             /\ handler'.response = Stopped(r)
             /\ runs'[r].log_lines = runs[r].log_lines
             /\ runs'[r].process = runs[r].process
             /\ procs' = procs]_vars

\* C4: when api_stop returns for a run whose status was running at the call,
\* the subprocess was sent the termination signal (and the kill unless it
\* exited in the wait), api_stop appended exactly one line to the log, the
\* status is stopped and the process handle is absent.
C4_StopOnRunning ==
    \A r \in DOMAIN runs :
        (StopServed(r) /\ handler.pc = "return" /\ handler.entry.status = "running")
        => /\ "TERM" \in procs[r].signals
           /\ "KILL" \in procs[r].signals \/ procs[r].state = "exited"
           /\ runs[r].log_lines = Append(handler.entry.log_lines, STOP_REQUESTED)
           /\ runs[r].status = "stopped"
           /\ runs[r].process = None

\* C5: a run whose worker thread has ended is not running.
C5_EndedWorkerNotRunning ==
    \A r \in DOMAIN runs : worker[r].pc = "done" => runs[r].status # "running"

C5_Witness ==
    \E r \in DOMAIN runs :
        /\ worker[r].pc = "done"
        /\ worker[r].exc = "UnicodeDecodeError"
        /\ runs[r].status = "error"

\* C6: with api_stop never called on the run, after the worker has ended the
\* status is finished if the subprocess exited with 0 or SIMULATION_COMPLETE
\* was logged (and the worker met no fault), and it is error only if the
\* exit code was not 0 or the worker met a fault, and SIMULATION_COMPLETE
\* was not logged.
C6_FinalStatus ==
    \A r \in DOMAIN runs :
        (~hist[r].stop_called /\ worker[r].pc = "done")
        => LET fault == worker[r].exc # ""
               zero == procs[r].state = "exited" /\ procs[r].returncode = 0
           IN  /\ (~fault /\ (zero \/ CompleteLogged(r))) => runs[r].status = "finished"
               /\ runs[r].status = "error" => ((~zero \/ fault) /\ ~CompleteLogged(r))

\* C7: when Popen raises, the worker's handler appends one diagnostic line,
\* sets the status to error and ends the thread; the registry keeps its keys.
C7_LaunchFailure ==
    [][\A r \in DOMAIN runs :
          (worker[r].pc = "except" /\ worker[r].exc = "OSError"
           /\ worker'[r] # worker[r])
          => /\ worker'[r].pc = "done"
             /\ runs'[r].log_lines = Append(runs[r].log_lines, BackendError("OSError"))
             /\ runs'[r].status = "error"
             /\ DOMAIN runs' = DOMAIN runs]_vars

C7_Witness ==
    \E r \in DOMAIN runs :
        /\ worker[r].pc = "done"
        /\ worker[r].exc = "OSError"
        /\ procs[r].state = "none"
        /\ runs[r].status = "error"
        /\ runs[r].log_lines = <<BackendError("OSError")>>

\* the record that parsing the lines of a log, in order, makes of a new run
RECURSIVE Replay(_, _)
Replay(run, log) ==
    IF log = <<>> THEN run
    ELSE Replay(_parse_stats_from_line(run, Head(log)), Tail(log))

\* C8: the stats of every api_status response are those of exactly the lines
\* of its log, and a response whose log holds SIMULATION_COMPLETE is not
\* running: no line without its effect, no effect without its line.
C8_SnapshotAtomic ==
    (handler.op = "status" /\ handler.response.code = 200)
    => LET resp == handler.response
           replay == Replay(SimulationRun(resp.run_id, resp.params), resp.log)
       IN  /\ resp.stats = replay.stats
           /\ replay.status = "finished" => resp.status # "running"

C8_Witness ==
    /\ handler.op = "status"
    /\ handler.response.code = 200
    /\ handler.response.stats.total_time = 100
    /\ worker[handler.run_id].pc = "append"
    /\ worker[handler.run_id].line = SIMULATION_COMPLETE
    /\ handler.response.status = "running"

ValidParams(params) ==
    params.sim_time > 0 /\ params.min_green > 0 /\ params.max_green >= params.min_green

\* C9: no run is registered, and no worker or subprocess started, for
\* parameters that violate sim_time > 0, min_green > 0, max_green >= min_green.
C9_InvalidParamsRejected ==
    \A r \in RunIds :
        (r \in DOMAIN runs \/ worker[r].pc # "unborn" \/ procs[r].state # "none")
        => (r \in DOMAIN runs /\ ValidParams(runs[r].params))

\* C10: api_status answers with the last min(n, 300) lines of a log of n
\* lines, in the order of the log.
C10_LastLines ==
    (handler.op = "status" /\ handler.response.code = 200)
    => LET log == runs[handler.run_id].log_lines
           n == Len(log)
           k == IF n < LOG_TAIL THEN n ELSE LOG_TAIL
       IN  /\ Len(handler.response.log) = k
           /\ \A i \in 1..k : handler.response.log[i] = log[n - k + i]

C10_Witness ==
    /\ handler.op = "status"
    /\ handler.response.code = 200
    /\ Len(runs[handler.run_id].log_lines) > LongLog
    /\ Len(handler.response.log) = LOG_TAIL
    /\ handler.response.log[LOG_TAIL] = STOP_REQUESTED

\* C11: a status or stop request for a run_id that is not a key of the registry
\* is answered "run not found" (404) without raising, and leaves the registry,
\* every run record and every subprocess as they were.
C11_UnknownRunId ==
    [][\A run_id \in RequestIds \ DOMAIN runs :
          (/\ handler = Idle
           /\ handler'.op \in {"status", "stop"}
           /\ handler'.run_id = run_id)
          => /\ handler'.pc = "return"
             /\ handler'.response = NotFound
             /\ runs' = runs
             /\ procs' = procs]_vars

\* a stop request for an unknown run_id was answered while a run with a live
\* subprocess was registered
C11_Witness ==
    /\ handler.op = "stop"
    /\ handler.run_id \notin DOMAIN runs
    /\ handler.pc = "return"
    /\ \E r \in DOMAIN runs : runs[r].process # None /\ procs[r].state = "alive"

C13_RegistryOnlyGrows ==
    [][/\ DOMAIN runs \subseteq DOMAIN runs'
       /\ \A c \in DOMAIN calls' :
            calls'[c].pc = "done"
            => /\ calls'[c].run_id \in DOMAIN runs'
               /\ (handler = Idle /\ handler'.op = "status"
                     /\ handler'.run_id = calls'[c].run_id)
                  => /\ handler'.response.code = 200
                     /\ handler'.response.run_id = calls'[c].run_id]_vars

\* a status request finds a run that was stopped and whose worker has ended
C13_Witness ==
    /\ handler.op = "status"
    /\ handler.run_id \in DOMAIN runs
    /\ handler.response.code = 200
    /\ hist[handler.run_id].stop_called
    /\ worker[handler.run_id].pc = "done"

\* the formulas of the summary metrics: average_wait in hundredths,
\* traffic_density in tenths of a percent
AverageWait(total_time, total_vehicles) ==
    IF total_vehicles > 0 THEN RoundDiv(100 * total_time, total_vehicles) ELSE 0

Capacity(sim_time) == IF sim_time * 4 > 1 THEN sim_time * 4 ELSE 1

TrafficDensity(total_vehicles, sim_time) ==
    IF total_vehicles >= Capacity(sim_time) THEN 1000
    ELSE RoundDiv(1000 * total_vehicles, Capacity(sim_time))

\* the worker is between two lines: every line logged so far is parsed
BetweenLines(r) == worker[r].pc \notin {"append", "parse"}

\* C14: after any sequence of lines, of a run with valid parameters and a
\* total_time that is not negative, average_wait and traffic_density are the
\* formulas applied to the current total_time and total_vehicles, and
\* average_wait is 0 whenever total_vehicles is 0.
C14_SummaryFollowsTotals ==
    \A r \in DOMAIN runs :
        (BetweenLines(r) /\ ValidParams(runs[r].params) /\ runs[r].stats.total_time >= 0)
        => LET stats == runs[r].stats
           IN  /\ stats.average_wait =
                    AverageWait(stats.total_time, stats.total_vehicles)
               /\ stats.traffic_density =
                    TrafficDensity(stats.total_vehicles, runs[r].params.sim_time)
               /\ (stats.total_vehicles = 0 => stats.average_wait = 0)

\* the lines after which _parse_stats_from_line recomputes the summary metrics
Recomputes(raw) ==
    \/ StartsWith(Strip(raw), <<"Total", " ", "time", " ", "passed">>)
    \/ StartsWith(Strip(raw), THROUGHPUT_PREFIX)
    \/ StartsWith(Strip(raw), <<"SUMMARY">>)

\* the worker's step that parses the line it has just logged
Parses(r) == worker[r].pc = "parse" /\ worker'[r].pc = "read"

\* C15: a recompute of the summary metrics leaves, whatever integers
\* total_time, total_vehicles and sim_time are, average_wait =
\* round(total_time / total_vehicles, 2) if total_vehicles > 0 else 0, and
\* traffic_density = round(min(1.0, total_vehicles / max(1, sim_time * 4)) * 100, 1).
C15_RecomputeFormulas ==
    [][\A r \in DOMAIN runs :
          (Parses(r) /\ Recomputes(worker[r].line))
          => LET stats == runs'[r].stats
             IN  /\ stats.average_wait =
                      AverageWait(stats.total_time, stats.total_vehicles)
                 /\ stats.traffic_density =
                      TrafficDensity(stats.total_vehicles, runs[r].params.sim_time)]_vars

\* C16: parsing a well-formed LANE_STATS line for lane n in 1..4 makes lane
\* n's detail record exactly the six counts of the line (and lane n's total
\* the line's total), and changes no other lane and no other stat.
C16_LaneStatsReplaces ==
    [][\A r \in DOMAIN runs : \A lane \in 1..4 : \A d \in LaneCounts :
          (Parses(r) /\ worker[r].line = LaneStatsLine(lane, d))
          => /\ runs'[r].stats.lane_details[lane] = d
             /\ runs'[r].stats = [runs[r].stats EXCEPT !.lane_details[lane] = d,
                                                       !.lanes[lane] = d.total]
             /\ runs'[r].status = runs[r].status]_vars

\* lane 2 had a record with counts and the next LANE_STATS line for lane 2
\* has replaced it
C16_Witness ==
    \E r \in DOMAIN runs : \E d1, d2 \in LaneCounts :
        /\ d1 # d2
        /\ worker[r].pc = "read"
        /\ runs[r].log_lines = <<RStripNewline(LaneStatsLine(2, d1)),
                                  RStripNewline(LaneStatsLine(2, d2))>>
        /\ runs[r].stats.lane_details[2] = d2

\* C17: parsing a LANE_STATS line whose lane is not one of 1..4, or that has
\* a malformed token, changes no stat and not the status, and the lane
\* mappings keep exactly the keys 1..4.
C17_BadLaneStatsIgnored ==
    [][\A r \in DOMAIN runs :
          (Parses(r) /\ worker[r].line \in BadLaneLines)
          => /\ runs'[r].stats = runs[r].stats
             /\ DOMAIN runs'[r].stats.lanes = 1..4
             /\ DOMAIN runs'[r].stats.lane_details = 1..4
             /\ runs'[r].status = runs[r].status]_vars

\* C18: a run whose status is not running is not running after any step: once
\* the status has left running it is never running again.
C18_NeverRunningAgain ==
    [][\A r \in DOMAIN runs :
          runs[r].status # "running" => runs'[r].status # "running"]_vars

\* a run was stopped before its worker started the subprocess, and the worker
\* has gone on to start it and to read its output
C18_Witness ==
    \E r \in DOMAIN runs :
        /\ runs[r].status = "stopped"
        /\ worker[r].pc = "read"
        /\ procs[r].state = "alive"

\* C19: whoever holds runs_lock is not inside an operation on a subprocess:
\* not a handler inside proc.wait, not a worker reading a line of the pipe or
\* inside run.process.wait.
C19_NoLockAcrossSubprocess ==
    /\ lock = <<"handler">> => ~(handler.op = "stop" /\ handler.pc = "wait")
    /\ \A r \in DOMAIN worker :
         lock = <<"worker", r>> => worker[r].pc \notin {"read", "wait"}

\* api_stop was called on run r and every such call has returned
StopReturned(r) == hist[r].stop_called /\ ~StopServed(r)

\* C20: once api_stop has returned for a run, the run has no live subprocess,
\* in whatever order api_stop and the worker took their steps: none that was
\* alive is left alive (a subprocess that was sent SIGKILL counts as ended),
\* and none is started afterwards.
C20_NoSubprocessAfterStop ==
    \A r \in DOMAIN runs :
        StopReturned(r)
        => ~(procs[r].state = "alive" /\ "KILL" \notin procs[r].signals)

\* C21: a run whose status is finished, error or stopped has no process
\* handle: every step that leaves running releases the handle in the same
\* step.  Stated for the runs api_stop was never called on, whose status only
\* the worker sets.
C21_TerminalHasNoHandle ==
    \A r \in DOMAIN runs :
        (runs[r].status \in Terminal /\ ~hist[r].stop_called)
        => runs[r].process = None

\* the lines of a log that the worker or api_stop wrote by themselves
IsSystemLine(l) == l # <<>> /\ l[1] \in {"[system]", "[backend"}

\* the lines of a log that came out of the subprocess, in the log's order
OutputOf(log_lines) == SelectSeq(log_lines, LAMBDA l : ~IsSystemLine(l))

\* the first n of the lines a subprocess has written, as they are logged
Logged(written, n) == [i \in 1..n |-> RStripNewline(written[i])]

\* C22: the worker logs every line it has read, whether or not api_stop was
\* called in between: the line goes to the end of the log, so behind the
\* stop-requested marker that is there, and the output lines of the log are
\* the lines the subprocess has written, in the order it wrote them.
C22_LinesAfterStopLogged ==
    [][\A r \in DOMAIN runs :
          /\ (worker[r].pc = "append" /\ worker'[r].pc # "append")
             => runs'[r].log_lines =
                  Append(runs[r].log_lines, RStripNewline(worker[r].line))
          /\ LET out == OutputOf(runs'[r].log_lines)
             IN  /\ Len(out) <= Len(hist'[r].written)
                 /\ out = Logged(hist'[r].written, Len(out))]_vars

\* api_stop appended its marker while the subprocess was alive, and the two
\* lines the subprocess wrote are in the log behind it: the second of them
\* was read after the stop request
C22_Witness ==
    \E r \in DOMAIN runs :
        /\ Len(runs[r].log_lines) = 3
        /\ runs[r].log_lines[1] = STOP_REQUESTED
        /\ runs[r].log_lines[2] = RStripNewline(hist[r].written[1])
        /\ runs[r].log_lines[3] = RStripNewline(hist[r].written[2])
        /\ runs[r].status = "stopped"

\* C23: under fair scheduling every status or stop request that is being
\* served returns, and runs_lock, whoever holds it, is released again, also
\* when the subprocess ignores SIGTERM, never exits and never writes.
C23_CallsReturn ==
    /\ (handler # Idle) ~> (handler = Idle)
    /\ (lock # Free) ~> (lock = Free)

\* api_stop has waited in vain for a subprocess that wrote nothing and ignored
\* SIGTERM, has killed it, and is about to return
C23_Witness ==
    /\ handler.op = "stop"
    /\ handler.pc = "return"
    /\ handler.run_id \in DOMAIN runs
    /\ procs[handler.run_id].state = "alive"
    /\ procs[handler.run_id].signals = {"TERM", "KILL"}
    /\ procs[handler.run_id].emitted = 0

\* C24: after any sequence of lines, lines with negative numbers among them,
\* every lane counter, total_vehicles and total_time are not negative, and
\* traffic_density is between 0 and 100 (in tenths: 0 and 1000).
C24_StatsInRange ==
    \A r \in DOMAIN runs :
        BetweenLines(r)
        => LET stats == runs[r].stats
           IN  /\ stats.total_vehicles >= 0
               /\ stats.total_time >= 0
               /\ \A n \in DOMAIN stats.lanes : stats.lanes[n] >= 0
               /\ \A n \in DOMAIN stats.lane_details :
                    \A k \in DOMAIN stats.lane_details[n] :
                       stats.lane_details[n][k] >= 0
               /\ stats.traffic_density >= 0
               /\ stats.traffic_density <= 1000

\* C25: parsing a legacy line "Lane <n>: ...: Total: <v>", n in 1..4 and v an
\* integer, sets lane n's total to v and changes nothing else: not the counts
\* per class of lane n, not another lane, not another stat, not the status.
C25_LegacyLineSetsTotal ==
    [][\A r \in DOMAIN runs : \A n \in 1..4 : \A v \in {0, 5, 38} :
          (/\ Parses(r)
           /\ worker[r].line \in {LegacyLine(ToString(n), ToString(v)),
                                  LegacyLineWithField(ToString(n), ToString(v))})
          => /\ runs'[r].stats = [runs[r].stats EXCEPT !.lanes[n] = v]
             /\ runs'[r].status = runs[r].status]_vars

\* the conditions of the branches of _parse_stats_from_line, on the stripped line
Matches(raw) ==
    LET line == Strip(raw)
    IN  \/ Contains(line, GREEN_TS) \/ Contains(line, YELLOW_TS) \/ Contains(line, RED_TS)
        \/ StartsWith(line, <<"LANE_STATS">>)
        \/ StartsWith(line, <<"Lane", " ">>) /\ Contains(line, <<"Total", ":">>)
        \/ StartsWith(line, <<"Total", " ", "vehicles", " ", "passed">>)
        \/ StartsWith(line, <<"Total", " ", "time", " ", "passed">>)
        \/ StartsWith(line, THROUGHPUT_PREFIX)
        \/ StartsWith(line, <<"SUMMARY">>)
        \/ StartsWith(line, <<"SIMULATION_COMPLETE">>)

\* the worker's step that logs the line it has just read
Logs(r) == worker[r].pc = "append" /\ worker'[r].pc = "parse"

\* C26: a line read by the worker that matches none of the patterns is
\* appended to the run's log, and neither the step that logs it nor the step
\* that parses it changes the run's stats or status (or anything else of the
\* record).
C26_UnknownLineOnlyLogged ==
    [][\A r \in DOMAIN runs :
         ~Matches(worker[r].line)
         => /\ Logs(r) => runs'[r] = [runs[r] EXCEPT
                                        !.log_lines =
                                            Append(@, RStripNewline(worker[r].line))]
            /\ Parses(r) => runs'[r] = runs[r]]_vars

\* an unknown line was logged and parsed after a line that had set total_time
C26_Witness ==
    \E r \in DOMAIN runs :
        /\ worker[r].pc = "read"
        /\ Len(runs[r].log_lines) = 2
        /\ runs[r].log_lines[2] = RStripNewline(VEHICLE_CROSSED)
        /\ runs[r].stats.total_time = 100

\* C27: in every reachable state of every run, from its creation on and after
\* any sequence of output lines, congestion_level equals traffic_density.
C27_CongestionIsDensity ==
    \A r \in DOMAIN runs :
        runs[r].stats.congestion_level = runs[r].stats.traffic_density

\* the two values after a recompute that made the density 20.0
C27_Witness ==
    \E r \in DOMAIN runs :
        /\ runs[r].stats.total_vehicles = 40
        /\ runs[r].stats.traffic_density = 200
        /\ runs[r].stats.congestion_level = 200

\* s is a prefix of t
IsPrefix(s, t) == Len(s) <= Len(t) /\ SubSeq(t, 1, Len(s)) = s

\* a step of a status request: its critical section, or its return
StatusStep ==
    \/ handler = Idle /\ handler' # Idle /\ handler'.op = "status"
    \/ handler # Idle /\ handler.op = "status" /\ handler' = Idle

\* C28: the log of a run is append-only: across every step (of the worker, of
\* a stop request, of a status request) the run is still registered and its
\* log before the step is a prefix of its log after the step, and a step of a
\* status request leaves every log as it was.
C28_LogAppendOnly ==
    [][/\ \A r \in DOMAIN runs :
            /\ r \in DOMAIN runs'
            /\ IsPrefix(runs[r].log_lines, runs'[r].log_lines)
       /\ StatusStep => \A r \in DOMAIN runs :
                            runs'[r].log_lines = runs[r].log_lines]_vars

\* a status request has returned a log that the worker and a stop request
\* have both written to, and the record still holds it
C28_Witness ==
    \E r \in DOMAIN runs :
        /\ handler # Idle
        /\ handler.op = "status"
        /\ handler.response.code = 200
        /\ Len(runs[r].log_lines) = 2
        /\ runs[r].log_lines[1] = RStripNewline(TOTAL_TIME_100)
        /\ runs[r].log_lines[2] = STOP_REQUESTED
        /\ handler.response.log = runs[r].log_lines

====
